---- MODULE Spec2Model ----
(***************************************************************************)
(* Model of the hangman solvers and games of src/hangman.py and of the     *)
(* trie of src/trie.py.                                                    *)
(*                                                                         *)
(* One solver instance is observed: its kind and construction arguments    *)
(* are chosen in Init.  The deque letters_by_frequency is an attribute of  *)
(* the class HangmanSolver, hence one object shared by every solver of the *)
(* process; OtherInstanceGuess is a guess_letter call on a freshly         *)
(* constructed FrequencyHangmanSolver, whose only effect outside that      *)
(* instance is the popleft on the shared deque.                            *)
(*                                                                         *)
(* Strings are sequences of one-character strings; "_" is an unknown cell. *)
(* The solution is kept as a sequence of slots: one slot for the           *)
(* single-slot solvers (self.solution is a str), one per word for          *)
(* MultiWordRegexHangmanSolver (self.solution is a list of str).           *)
(*                                                                         *)
(* Five specifications share the variables:                                *)
(*   Spec        a solver driven by any calls with any position lists;     *)
(*   SpecGame    Game.play and MultiWordGame.play;                         *)
(*   SpecHonest  the same loop without the limit on wrong guesses, on a    *)
(*               regex solver, for answer words of the dictionary;         *)
(*   SpecReplay  a RegexHangmanSolver, then a one-slot                     *)
(*               MultiWordRegexHangmanSolver given the same calls;         *)
(*   SpecTrie    the Trie of src/trie.py.                                  *)
(* The variables a specification does not use keep their initial value.    *)
(***************************************************************************)
EXTENDS Integers, Sequences, FiniteSets

\* ------------------------------------------------------------------ bounds
\* number of letters of the alphabet that are modelled (a prefix of the
\* frequency order)
AlphabetSize == 3
\* largest number of slots of a multi-word solver
MaxSlots == 2
\* largest number of cells of a solution, all slots together: at
\* construction, and after a feedback that makes a slot longer
MaxCells == 2

VARIABLES
  kind,                 \* class of the observed solver
  answer_lengths,       \* construction argument: the length of each slot
  solution,             \* self.solution, a sequence of slots
  guessed_letters,      \* self.guessed_letters
  last_guess,           \* self.last_guess (None when no guess is pending)
  solved,               \* self.solved
  words,                \* self.words (dictionary solvers)
  word_candidates,      \* self.word_candidates (multi-word solver)
  letters_by_frequency, \* HangmanSolver.letters_by_frequency (class level)
  call,                 \* the last call made and its outcome
  last_ok,              \* the most recent call on the solver that succeeded
  failed,               \* guess_letter has failed with Exhausted/NoCandidates
  arg,                  \* the positions the last receive_feedback was given
  alphabet_size,        \* how many letters of the alphabet are modelled
  trie,                 \* the nodes of a Trie, by their path from the root
  inserted,             \* the items Trie.add has been called with
  trie_out,             \* the last Trie call: name, argument, result
  answer,               \* Game.answer, one word per slot
  wrong_guesses,        \* Game.wrong_guesses
  limited,              \* whether play stops at max_wrong_guesses
  pc,                   \* where play is
  rounds,               \* the iterations of the loop of play completed
  phase,                \* which of the two compared solvers is driven
  script,               \* the calls made on the single-slot solver
  single_trace,         \* what the single-slot solver showed after each
  multi_trace           \* what the one-slot multi-word solver showed

solverVars == << kind, answer_lengths, solution, guessed_letters, last_guess,
                 solved, words, word_candidates, letters_by_frequency, call,
                 last_ok, failed, arg, alphabet_size >>

trieVars == << trie, inserted, trie_out >>

gameVars == << answer, wrong_guesses, limited, pc, rounds >>

replayVars == << phase, script, single_trace, multi_trace >>

\* the variables of the other specifications
otherVars == << trieVars, gameVars, replayVars >>

vars == << solverVars, otherVars >>

\* --------------------------------------------------------------- constants
None == "None"
Unknown == "_"

FullOrder ==
  << "E", "T", "A", "O", "I", "N", "S", "R", "H", "D", "L", "U", "C",
     "M", "F", "Y", "W", "G", "P", "B", "V", "K", "X", "Q", "J", "Z" >>

\* the letters of the frequency order that are modelled
FreqOrder == SubSeq(FullOrder, 1, alphabet_size)

ALL_LETTERS == { FreqOrder[i] : i \in 1..alphabet_size }

\* the contents of words.txt, upper-cased and stripped
Dictionary ==
  { << "A" >>, << "E", "T" >>, << "T", "A" >>, << "A", "T" >>,
    << "A", "E" >>, << "E", "E" >>, << "T", "E", "A" >>, << "A", "T", "E" >> }

Kinds == { "Random", "Frequency", "Regex", "MultiWord" }

\* ----------------------------------------------------------------- helpers
\* the lower-case letters, in the order of FullOrder
LowerOrder ==
  << "e", "t", "a", "o", "i", "n", "s", "r", "h", "d", "l", "u", "c",
     "m", "f", "y", "w", "g", "p", "b", "v", "k", "x", "q", "j", "z" >>

\* str.upper on one character
upper_letter(c) ==
  IF \E i \in 1..Len(LowerOrder) : LowerOrder[i] = c
  THEN FullOrder[CHOOSE i \in 1..Len(LowerOrder) : LowerOrder[i] = c]
  ELSE c

\* str.upper
upper(word) == [ i \in 1..Len(word) |-> upper_letter(word[i]) ]

\* Node(value, terminal): the children are the keys of the dict in
\* insertion order; the child under key k of the node at path p is the
\* node at path Append(p, k)
Node(value, terminal) ==
  [ value |-> value, terminal |-> terminal, children |-> << >> ]

Min(a, b) == IF a < b THEN a ELSE b
Max(a, b) == IF a > b THEN a ELSE b

Blank(n) == [ i \in 1..n |-> Unknown ]

\* sequences over S of length at most n
SeqsUpTo(S, n) == UNION { [ 1..k -> S ] : k \in 0..n }

\* the number of cells of a solution
RECURSIVE TotalCells(_)
TotalCells(sol) ==
  IF sol = << >> THEN 0 ELSE Len(Head(sol)) + TotalCells(Tail(sol))

\* the sum of a sequence of lengths
RECURSIVE Sum(_)
Sum(lengths) ==
  IF lengths = << >> THEN 0 ELSE Head(lengths) + Sum(Tail(lengths))

\* a Python slice bound i on a string of length n, as a count of characters
SliceBound(i, n) == IF i < 0 THEN Max(n + i, 0) ELSE Min(i, n)

\* s[:index] + letter + s[index+1:]
SetCell(s, index, letter) ==
  LET n == Len(s)
  IN  SubSeq(s, 1, SliceBound(index, n)) \o << letter >>
        \o SubSeq(s, SliceBound(index + 1, n) + 1, n)

\* for index in matching_indices: s = s[:index] + letter + s[index+1:]
RECURSIVE ApplyIndices(_, _, _)
ApplyIndices(s, matching_indices, letter) ==
  IF matching_indices = << >> THEN s
  ELSE ApplyIndices(SetCell(s, Head(matching_indices), letter),
                    Tail(matching_indices), letter)

\* '_' not in the solution (for the list of slots: not in ' '.join(slots))
NoUnknown(sol) == \A w \in 1..Len(sol) : \A j \in 1..Len(sol[w]) : sol[w][j] # Unknown

\* the letters of a set of words: set(''.join(words))
LettersOf(ws) == UNION { { w[i] : i \in 1..Len(w) } : w \in ws }

\* deque.index(x): the first position of x (ValueError when x is absent)
InDeque(x) == \E i \in 1..Len(letters_by_frequency) : letters_by_frequency[i] = x
DequeIndex(x) ==
  CHOOSE i \in 1..Len(letters_by_frequency) :
    /\ letters_by_frequency[i] = x
    /\ \A j \in 1..(i - 1) : letters_by_frequency[j] # x

\* ------------------------------------------------------------------- regex
\* A compiled pattern '^...$' is a sequence of character classes, one per
\* character to match; ok = FALSE stands for re.error from re.compile.

\* faulty variant: the wildcard forgets the letters already guessed
PossibleLetters_AnyLetter == ALL_LETTERS

\* possible_letters = self.ALL_LETTERS - self.guessed_letters
PossibleLetters == ALL_LETTERS \ guessed_letters

\* With no possible letter the wildcard is the text '[]'.  re reads a ']'
\* right after '[' as a member of the class, so the class opened by one
\* wildcard runs to the ']' of the next wildcard and swallows the revealed
\* letters in between; a class left open at '$' is "unterminated character
\* set".
RECURSIVE ParseEmptyWildcards(_, _, _, _)
ParseEmptyWildcards(word, i, open, class) ==
  IF i > Len(word) THEN [ ok |-> ~open, elems |-> << >> ]
  ELSE IF word[i] = Unknown
       THEN IF ~open
            THEN ParseEmptyWildcards(word, i + 1, TRUE, { "]" })
            ELSE LET rest == ParseEmptyWildcards(word, i + 1, FALSE, {})
                 IN  [ ok |-> rest.ok,
                       elems |-> << class \cup { "[" } >> \o rest.elems ]
       ELSE IF open
            THEN ParseEmptyWildcards(word, i + 1, TRUE, class \cup { word[i] })
            ELSE LET rest == ParseEmptyWildcards(word, i + 1, FALSE, {})
                 IN  [ ok |-> rest.ok, elems |-> << { word[i] } >> \o rest.elems ]

\* RegexHangmanSolver._get_regex(word)
GetRegex(word) ==
  IF PossibleLetters # {}
  THEN [ ok |-> TRUE,
         elems |-> [ i \in 1..Len(word) |->
                       IF word[i] = Unknown THEN PossibleLetters
                                            ELSE { word[i] } ] ]
  ELSE ParseEmptyWildcards(word, 1, FALSE, {})

\* regex.match(word) is not None, for an anchored pattern
Matches(regex, w) ==
  /\ Len(w) = Len(regex.elems)
  /\ \A i \in 1..Len(w) : w[i] \in regex.elems[i]

\* ------------------------------------------------------------------ _guess
\* The possible results of self._guess() in the current state: the outcome
\* ("ok" or the error raised), the letter returned, and the attributes the
\* call has assigned by the time it returns or raises.
GuessResult(outcome, choice, ws, cands, deque) ==
  [ outcome |-> outcome, choice |-> choice, words |-> ws,
    word_candidates |-> cands, letters_by_frequency |-> deque ]

\* faulty variant: the choices are not reduced by the letters already guessed
RandomChoices_AllLetters == ALL_LETTERS

\* choices = list(self.ALL_LETTERS - self.guessed_letters)
RandomChoices == ALL_LETTERS \ guessed_letters

\* RandomHangmanSolver._guess
RandomGuess ==
  IF RandomChoices = {}
  THEN { GuessResult("exhausted", None, words, word_candidates,
                     letters_by_frequency) }
  ELSE { GuessResult("ok", c, words, word_candidates, letters_by_frequency)
           : c \in RandomChoices }

\* FrequencyHangmanSolver._guess
FrequencyGuess ==
  IF letters_by_frequency = << >>
  THEN { GuessResult("exhausted", None, words, word_candidates,
                     letters_by_frequency) }
  ELSE { GuessResult("ok", Head(letters_by_frequency), words,
                     word_candidates, Tail(letters_by_frequency)) }

\* letters_to_guess = list(letters_in_candidates - self.guessed_letters)
LettersToGuess(letters_in_candidates) == letters_in_candidates \ guessed_letters

\* sorted(letters_to_guess, key=self.letters_by_frequency.index)[0], after
\* the check that letters_to_guess is not empty; list.index raises
\* ValueError for a letter that is no longer in the deque
PickByFrequency(letters_to_guess, ws, cands) ==
  IF letters_to_guess = {}
  THEN GuessResult("exhausted", None, ws, cands, letters_by_frequency)
  ELSE IF \E x \in letters_to_guess : ~InDeque(x)
  THEN GuessResult("value_error", None, ws, cands, letters_by_frequency)
  ELSE GuessResult("ok",
                   CHOOSE x \in letters_to_guess :
                     \A y \in letters_to_guess : DequeIndex(x) <= DequeIndex(y),
                   ws, cands, letters_by_frequency)

\* RegexHangmanSolver._guess
RegexGuess ==
  LET regex == GetRegex(solution[1])
      matching == { w \in words : Matches(regex, w) }
  IN  IF ~regex.ok
      THEN { GuessResult("regex_error", None, words, word_candidates,
                         letters_by_frequency) }
      ELSE IF matching = {}
      THEN { GuessResult("no_words", None, matching, word_candidates,
                         letters_by_frequency) }
      ELSE { PickByFrequency(LettersToGuess(LettersOf(matching)), matching,
                             word_candidates) }

\* the candidates the loop of MultiWordRegexHangmanSolver._guess computes
\* for slot i: it filters self.words, the whole dictionary
SlotCandidates(i) ==
  { w \in words : Matches(GetRegex(solution[i]), w) }

\* the first slot at which that loop raises, or 0
FirstFailingSlot ==
  LET bad == { i \in 1..Len(solution) :
                 ~GetRegex(solution[i]).ok \/ SlotCandidates(i) = {} }
  IN  IF bad = {} THEN 0
      ELSE CHOOSE i \in bad : \A j \in bad : i <= j

\* MultiWordRegexHangmanSolver._guess
MultiWordGuess ==
  LET f == FirstFailingSlot
      all == [ i \in 1..Len(solution) |-> SlotCandidates(i) ]
      partial == [ i \in 1..Len(solution) |->
                     IF i < f THEN SlotCandidates(i)
                     ELSE IF i = f /\ GetRegex(solution[i]).ok THEN {}
                     ELSE word_candidates[i] ]
  IN  IF f # 0
      THEN { GuessResult(IF GetRegex(solution[f]).ok THEN "no_words"
                                                     ELSE "regex_error",
                         None, words, partial, letters_by_frequency) }
      ELSE { PickByFrequency(
               LettersToGuess(UNION { LettersOf(all[i]) : i \in 1..Len(solution) }),
               words, all) }

\* self._guess(), dispatched on the class of the solver
Guess ==
  CASE kind = "Random" -> RandomGuess
    [] kind = "Frequency" -> FrequencyGuess
    [] kind = "Regex" -> RegexGuess
    [] kind = "MultiWord" -> MultiWordGuess

\* ---------------------------------------------------------------- protocol
\* if self.last_guess is not None: raise RuntimeError (guess_letter)
GuessPending == last_guess # None

\* faulty variant: receive_feedback does not check for a pending guess
NoGuessPending_Unchecked == FALSE

\* if self.last_guess is None: raise RuntimeError (receive_feedback)
NoGuessPending == last_guess = None

\* faulty variant: the flag is assigned on every feedback, from a count of the
\* revealed cells against the answer length
FeedbackSolved_Recount(old, sol) ==
  NoUnknown(sol) /\ TotalCells(sol) = Sum(answer_lengths)

\* the solved flag as receive_feedback leaves it:
\* if '_' not in self.solution: self.solved = True
FeedbackSolved(old, sol) == IF NoUnknown(sol) THEN TRUE ELSE old

\* faulty variant: the result of _guess is recorded whether or not it is
\* a letter
GuessedAfter_Unconditional(r) == guessed_letters \cup { r.choice }

\* self.guessed_letters.add(choice), which an exception in _guess skips
GuessedAfter(r) ==
  IF r.outcome = "ok" THEN guessed_letters \cup { r.choice }
                      ELSE guessed_letters

\* HangmanSolver.guess_letter, on the observed solver
GuessLetter ==
  /\ arg' = None
  /\ IF GuessPending
     THEN /\ call' = << "guess_letter", "pending" >>
          /\ UNCHANGED << kind, answer_lengths, solution, guessed_letters,
                          last_guess, solved, words, word_candidates,
                          letters_by_frequency, last_ok, failed,
                          alphabet_size >>
     ELSE \E r \in Guess :
            /\ words' = r.words
            /\ word_candidates' = r.word_candidates
            /\ letters_by_frequency' = r.letters_by_frequency
            /\ call' = << "guess_letter", r.outcome >>
            /\ guessed_letters' = GuessedAfter(r)
            /\ IF r.outcome = "ok"
               THEN /\ last_guess' = r.choice
                    /\ last_ok' = "guess_letter"
               ELSE UNCHANGED << last_guess, last_ok >>
            /\ failed' = (failed \/ r.outcome \in { "exhausted", "no_words" })
            /\ UNCHANGED << kind, answer_lengths, solution, solved,
                            alphabet_size >>

\* guess_letter as an operation of the driver
guess_letter == GuessLetter /\ UNCHANGED otherVars

\* the ascending lists of the indices in a set
RECURSIVE Ascending(_)
Ascending(S) ==
  IF S = {} THEN << >>
  ELSE LET m == CHOOSE x \in S : \A y \in S : x <= y
       IN  << m >> \o Ascending(S \ { m })

\* the position lists a driver may pass for a slot of n cells: any set of
\* cells of the slot in ascending order (as Game.play builds them), or one
\* index that is not a cell of the slot, n or -1
PositionLists(n) ==
  { Ascending(S) : S \in SUBSET (0..(n - 1)) } \cup { << n >>, << 0 - 1 >> }

\* HangmanSolver.receive_feedback(matching_indices), on the observed
\* single-slot solver
ReceiveFeedback(matching_indices) ==
  /\ kind # "MultiWord"
  /\ IF NoGuessPending
     THEN /\ call' = << "receive_feedback", "no_pending" >>
          /\ arg' = None
          /\ UNCHANGED << solution, last_guess, solved, last_ok >>
     ELSE LET s == ApplyIndices(solution[1], matching_indices, last_guess)
          IN  /\ solution' = << s >>
              /\ last_guess' = None
              /\ solved' = FeedbackSolved(solved, << s >>)
              /\ call' = << "receive_feedback", "ok" >>
              /\ arg' = << matching_indices >>
              /\ last_ok' = "receive_feedback"
  /\ UNCHANGED << kind, answer_lengths, guessed_letters, words,
                  word_candidates, letters_by_frequency, failed,
                  alphabet_size >>

\* receive_feedback as an operation of the driver, with any position list
receive_feedback ==
  /\ kind # "MultiWord"
  /\ IF NoGuessPending
     THEN ReceiveFeedback(<< >>)
     ELSE \E matching_indices \in PositionLists(Len(solution[1])) :
            /\ Len(ApplyIndices(solution[1], matching_indices,
                                last_guess)) <= MaxCells
            /\ ReceiveFeedback(matching_indices)
  /\ UNCHANGED otherVars

\* the lists of position lists a driver may pass to a solver with the
\* slots sol: one list per slot, or one more, which makes the loop index
\* self.solution out of range
WordPositionLists(sol) ==
  LET perSlot == { f \in [ 1..Len(sol) -> UNION { PositionLists(Len(sol[i])) : i \in 1..Len(sol) } ] :
                     \A i \in 1..Len(sol) : f[i] \in PositionLists(Len(sol[i])) }
  IN  perSlot \cup { Append(f, << 0 >>) : f \in perSlot }

\* the slots sol after the loops of receive_feedback have written letter
\* at the positions of each list that has a slot
ApplyWordIndices(sol, matching_word_indices, letter) ==
  [ i \in 1..Len(sol) |->
      IF i <= Len(matching_word_indices)
      THEN ApplyIndices(sol[i], matching_word_indices[i], letter)
      ELSE sol[i] ]

\* MultiWordRegexHangmanSolver.receive_feedback(matching_word_indices), on
\* the observed multi-word solver
MultiWordReceiveFeedback(matching_word_indices) ==
  /\ kind = "MultiWord"
  /\ IF NoGuessPending
     THEN /\ call' = << "receive_feedback", "no_pending" >>
          /\ arg' = None
          /\ UNCHANGED << solution, last_guess, solved, last_ok >>
     ELSE   LET n == Len(solution)
                sol == ApplyWordIndices(solution, matching_word_indices,
                                        last_guess)
                index_error == \E k \in (n + 1)..Len(matching_word_indices) :
                                 matching_word_indices[k] # << >>
            IN  /\ solution' = sol
                /\ arg' = matching_word_indices
                /\ IF index_error
                   THEN /\ call' = << "receive_feedback", "index_error" >>
                        /\ UNCHANGED << last_guess, solved, last_ok >>
                   ELSE /\ last_guess' = None
                        /\ solved' = FeedbackSolved(solved, sol)
                        /\ call' = << "receive_feedback", "ok" >>
                        /\ last_ok' = "receive_feedback"
  /\ UNCHANGED << kind, answer_lengths, guessed_letters, words,
                  word_candidates, letters_by_frequency, failed,
                  alphabet_size >>

\* the multi-word receive_feedback as an operation of the driver, with any
\* list of position lists
MultiWord_receive_feedback ==
  /\ kind = "MultiWord"
  /\ IF NoGuessPending
     THEN MultiWordReceiveFeedback(<< >>)
     ELSE \E matching_word_indices \in WordPositionLists(solution) :
            /\ TotalCells(ApplyWordIndices(solution, matching_word_indices,
                                           last_guess)) <= MaxCells
            /\ MultiWordReceiveFeedback(matching_word_indices)
  /\ UNCHANGED otherVars

\* guess_letter on a newly constructed FrequencyHangmanSolver: it pops the
\* deque of the class, which the observed solver shares
OtherGuess ==
  /\ IF letters_by_frequency = << >>
     THEN /\ call' = << "other_guess_letter", "exhausted" >>
          /\ UNCHANGED letters_by_frequency
     ELSE /\ call' = << "other_guess_letter", "ok" >>
          /\ letters_by_frequency' = Tail(letters_by_frequency)
  /\ arg' = None
  /\ UNCHANGED << kind, answer_lengths, solution, guessed_letters, last_guess,
                  solved, words, word_candidates, last_ok, failed,
                  alphabet_size >>

\* that call, made while the observed solver is driven directly
OtherInstanceGuess == OtherGuess /\ UNCHANGED otherVars

\* HangmanSolver.__init__ / DictionaryHangmanSolver.__init__ /
\* MultiWordRegexHangmanSolver.__init__
Construct(k, lengths, size) ==
  /\ alphabet_size = size
  /\ kind = k
  /\ answer_lengths = lengths
  /\ solution = [ i \in 1..Len(answer_lengths) |-> Blank(answer_lengths[i]) ]
  /\ guessed_letters = {}
  /\ last_guess = None
  /\ solved = FALSE
  /\ words = IF kind \in { "Regex", "MultiWord" } THEN Dictionary ELSE {}
  /\ word_candidates = IF kind = "MultiWord"
                       THEN [ i \in 1..Len(answer_lengths) |-> Dictionary ]
                       ELSE << >>
  /\ letters_by_frequency = FreqOrder
  /\ call = << "init", "ok" >>
  /\ last_ok = "none"
  /\ failed = FALSE
  /\ arg = None

\* Trie.__init__ without items: the root alone
TrieNew ==
  /\ trie = [ path \in { << >> } |-> Node("", FALSE) ]
  /\ inserted = {}
  /\ trie_out = << "init", << >>, << >> >>

\* no game is played
GameIdle ==
  /\ answer = << >>
  /\ wrong_guesses = {}
  /\ limited = FALSE
  /\ pc = "idle"
  /\ rounds = 0

\* no two solvers are compared
ReplayIdle ==
  /\ phase = "idle"
  /\ script = << >>
  /\ single_trace = << >>
  /\ multi_trace = << >>

\* the variables of the other specifications: they keep their initial value
OtherIdle == TrieNew /\ GameIdle /\ ReplayIdle

\* a solver of any class, constructed for any slot lengths
Init ==
  /\ \E k \in Kinds : \E lengths \in SeqsUpTo(0..MaxCells, MaxSlots) :
       /\ Sum(lengths) <= MaxCells
       /\ k # "MultiWord" => Len(lengths) = 1
       /\ Construct(k, lengths, AlphabetSize)
  /\ OtherIdle

Next ==
  \/ guess_letter
  \/ receive_feedback
  \/ MultiWord_receive_feedback
  \/ OtherInstanceGuess

Spec == Init /\ [][Next]_vars

\* ------------------------------------------------------------------- trie
\* largest number of different items added to a trie
MaxInserts == 3

\* the items given to Trie.add
TrieWords ==
  { << >>, << "a" >>, << "A" >>, << "a", "t" >>, << "A", "T" >>,
    << "a", "T", "e" >>, << "t" >>, << "t", "a" >> }

\* the arguments of Trie.__contains__ and Trie.suggest
TrieQueries == TrieWords \cup { << "e" >>, << "T", "e" >>, << "a", "t", "e" >> }

\* the keys of node.children
Keys(node) == { node.children[i] : i \in 1..Len(node.children) }

\* Node.get_child, on the node at path parent of the trie t
get_child(t, parent, value) ==
  IF upper_letter(value) \in Keys(t[parent])
  THEN [ found |-> TRUE, node |-> Append(parent, upper_letter(value)) ]
  ELSE [ found |-> FALSE, node |-> << >> ]

\* Node.add_child, on the node at path parent of the trie t
add_child(t, parent, value, terminal) ==
  LET v == upper_letter(value)
      child == Append(parent, v)
  IN  IF v \in Keys(t[parent])
      THEN [ trie |-> t, node |-> child ]
      ELSE [ trie |-> [ path \in DOMAIN t \cup { child } |->
                         IF path = child THEN Node(v, terminal)
                         ELSE IF path = parent
                              THEN [ t[path] EXCEPT
                                       !.children = Append(@, v) ]
                              ELSE t[path] ],
             node |-> child ]

\* the loop of Trie.add over the letters of the upper-cased item
RECURSIVE AddLoop(_, _, _)
AddLoop(t, parent, letters) ==
  IF letters = << >>
  THEN [ trie |-> t, node |-> parent ]
  ELSE LET child == get_child(t, parent, Head(letters))
           added == IF child.found
                    THEN [ trie |-> t, node |-> child.node ]
                    ELSE add_child(t, parent, Head(letters), FALSE)
       IN  AddLoop(added.trie, added.node, Tail(letters))

\* faulty variant: every node differs from the root
NodeEquals_Never(t, p, q) == FALSE

\* the == of the dataclass Node: value, terminal and children compared
RECURSIVE NodeEquals(_, _, _)
NodeEquals(t, p, q) ==
  /\ t[p].value = t[q].value
  /\ t[p].terminal = t[q].terminal
  /\ Keys(t[p]) = Keys(t[q])
  /\ \A k \in Keys(t[p]) : NodeEquals(t, Append(p, k), Append(q, k))

\* Trie.add
add(t, item) ==
  LET walked == AddLoop(t, << >>, upper(item))
  IN  IF ~NodeEquals(walked.trie, walked.node, << >>)
      THEN [ walked.trie EXCEPT ![walked.node].terminal = TRUE ]
      ELSE walked.trie

\* the loop of Trie.get_node over the letters of the upper-cased prefix
RECURSIVE GetLoop(_, _, _)
GetLoop(t, parent, letters) ==
  IF letters = << >>
  THEN [ found |-> TRUE, node |-> parent ]
  ELSE LET child == get_child(t, parent, Head(letters))
       IN  IF child.found THEN GetLoop(t, child.node, Tail(letters))
                          ELSE child

\* Trie.get_node
get_node(t, prefix) == GetLoop(t, << >>, upper(prefix))

\* the while loop of Trie.suggest: nodes is the stack, popped at its end
RECURSIVE SuggestLoop(_, _, _)
SuggestLoop(t, nodes, suggestions) ==
  IF nodes = << >>
  THEN suggestions
  ELSE LET top == nodes[Len(nodes)]
           children == t[top.node].children
       IN  SuggestLoop(
             t,
             SubSeq(nodes, 1, Len(nodes) - 1) \o
               [ i \in 1..Len(children) |->
                   [ word |-> Append(top.word, children[i]),
                     node |-> Append(top.node, children[i]) ] ],
             IF t[top.node].terminal THEN Append(suggestions, top.word)
                                     ELSE suggestions )

\* faulty variant: the words are built without the prefix
suggest_WithoutPrefix(t, prefix) ==
  LET node == get_node(t, upper(prefix))
  IN  IF ~node.found
      THEN << >>
      ELSE SuggestLoop(t, << [ word |-> << >>, node |-> node.node ] >>, << >>)

\* Trie.suggest
suggest(t, prefix) ==
  LET node == get_node(t, upper(prefix))
  IN  IF ~node.found
      THEN << >>
      ELSE SuggestLoop(t, << [ word |-> upper(prefix), node |-> node.node ] >>,
                       << >>)

\* Trie.__contains__
contains(t, item) ==
  LET node == get_node(t, item)
  IN  node.found /\ t[node.node].terminal

\* the solver of the other specifications: it keeps its initial value
SolverIdle == Construct("Random", << 0 >>, AlphabetSize)

TrieAdd ==
  /\ \E item \in TrieWords :
       /\ Cardinality(inserted \cup { item }) <= MaxInserts
       /\ trie' = add(trie, item)
       /\ inserted' = inserted \cup { item }
       /\ trie_out' = << "add", item, << >> >>
  /\ UNCHANGED << solverVars, gameVars, replayVars >>

TrieContains ==
  /\ \E item \in TrieQueries :
       trie_out' = << "contains", item, contains(trie, item) >>
  /\ UNCHANGED << trie, inserted, solverVars, gameVars, replayVars >>

TrieSuggest ==
  /\ \E prefix \in TrieQueries :
       trie_out' = << "suggest", prefix, suggest(trie, prefix) >>
  /\ UNCHANGED << trie, inserted, solverVars, gameVars, replayVars >>

TrieInit == TrieNew /\ SolverIdle /\ GameIdle /\ ReplayIdle

TrieNext == TrieAdd \/ TrieContains \/ TrieSuggest

SpecTrie == TrieInit /\ [][TrieNext]_vars

\* ------------------------------------------------------------------- game
\* Game.max_wrong_guesses, the number of HangmanRenderer.updates
max_wrong_guesses == 7

\* number of letters of the alphabet modelled when a game is played: one
\* more than max_wrong_guesses
GameAlphabetSize == 8

\* the words a game is constructed with
GameWords ==
  Dictionary \cup { << >>, << "t", "a" >>, << "T", "T" >>, << "O" >> }

\* faulty variant: only the first position of the letter is reported
HonestIndices_FirstOnly(word, guess) ==
  LET hits == { i \in 1..Len(word) : word[i] = guess }
  IN  IF hits = {} THEN << >>
      ELSE << (CHOOSE i \in hits : \A j \in hits : i <= j) - 1 >>

\* indices of play: the positions of guess in one answer word
HonestIndices(word, guess) ==
  Ascending({ i - 1 : i \in { j \in 1..Len(word) : word[j] = guess } })

\* faulty variant: the loop goes on until the solver is solved
LoopCondition_SolvedOnly == ~solved

\* the condition of the while loop of play; a driver without a limit on
\* wrong guesses tests solved alone
LoopCondition ==
  /\ ~solved
  /\ limited => Cardinality(wrong_guesses) < max_wrong_guesses

\* Game.__init__ / MultiWordGame.__init__ for the given words
NewGame(k, given, size, lim) ==
  /\ answer = [ i \in 1..Len(given) |-> upper(given[i]) ]
  /\ Construct(k, [ i \in 1..Len(given) |-> Len(given[i]) ], size)
  /\ wrong_guesses = {}
  /\ limited = lim
  /\ pc = "loop"
  /\ rounds = 0

\* one iteration of play up to the wrong-guess bookkeeping: guess_letter,
\* indices, wrong_guesses.add; an exception of the solver ends play
PlayGuess ==
  /\ pc = "loop"
  /\ LoopCondition
  /\ GuessLetter
  /\ IF call'[2] = "ok"
     THEN /\ pc' = "feedback"
          /\ wrong_guesses' =
               IF \A i \in 1..Len(answer) :
                    HonestIndices(answer[i], last_guess') = << >>
               THEN wrong_guesses \cup { last_guess' }
               ELSE wrong_guesses
     ELSE /\ pc' = "error"
          /\ UNCHANGED wrong_guesses
  /\ UNCHANGED << answer, limited, rounds, trieVars, replayVars >>

\* the rest of the iteration: receive_feedback(indices) and render
PlayFeedback ==
  /\ pc = "feedback"
  /\ IF kind = "MultiWord"
     THEN MultiWordReceiveFeedback(
            [ i \in 1..Len(answer) |-> HonestIndices(answer[i], last_guess) ])
     ELSE ReceiveFeedback(HonestIndices(answer[1], last_guess))
  /\ pc' = IF call'[2] = "ok" THEN "loop" ELSE "error"
  /\ rounds' = rounds + 1
  /\ UNCHANGED << answer, wrong_guesses, limited, trieVars, replayVars >>

\* the loop condition is false: play reports the result and returns
PlayEnd ==
  /\ pc = "loop"
  /\ ~LoopCondition
  /\ pc' = "done"
  /\ UNCHANGED << solverVars, answer, wrong_guesses, limited, rounds,
                  trieVars, replayVars >>

\* a FrequencyHangmanSolver of the same process guesses before play starts
OtherGuessBeforePlay ==
  /\ pc = "loop"
  /\ rounds = 0
  /\ guessed_letters = {}
  /\ OtherGuess
  /\ UNCHANGED << gameVars, trieVars, replayVars >>

\* Game(word, strategy) for any strategy, or MultiWordGame(words)
GameInit ==
  /\ \/ \E k \in { "Random", "Frequency", "Regex" } : \E word \in GameWords :
          NewGame(k, << word >>, GameAlphabetSize, TRUE)
     \/ \E given \in SeqsUpTo(GameWords, MaxSlots) :
          NewGame("MultiWord", given, GameAlphabetSize, TRUE)
  /\ TrieNew
  /\ ReplayIdle

\* a regex solver driven as play drives it, without the limit on wrong
\* guesses, for answer words of the dictionary
HonestInit ==
  /\ \/ \E word \in GameWords :
          /\ upper(word) \in Dictionary
          /\ NewGame("Regex", << word >>, AlphabetSize, FALSE)
     \/ \E given \in SeqsUpTo({ w \in GameWords : upper(w) \in Dictionary },
                              MaxSlots) :
          NewGame("MultiWord", given, AlphabetSize, FALSE)
  /\ TrieNew
  /\ ReplayIdle

GameNext == PlayGuess \/ PlayFeedback \/ PlayEnd \/ OtherGuessBeforePlay

SpecGame == GameInit /\ [][GameNext]_vars

SpecHonest == HonestInit /\ [][GameNext]_vars

\* ----------------------------------------------------------------- replay
\* largest number of calls made on each of the two compared solvers
MaxCalls == 5

\* what a solver shows after a call: whether the call failed and, after a
\* successful guess_letter, the letter, the slot, the solved flag and the
\* candidate set
Shown(c, letter, slot, flag, candidates) ==
  IF c = << "guess_letter", "ok" >>
  THEN [ failed |-> FALSE, letter |-> << letter >>, solution |-> slot,
         solved |-> flag, candidates |-> candidates ]
  ELSE [ failed |-> c[2] # "ok", letter |-> << >>, solution |-> << >>,
         solved |-> FALSE, candidates |-> {} ]

\* guess_letter on the RegexHangmanSolver
SingleGuess ==
  /\ phase = "single"
  /\ Len(script) < MaxCalls
  /\ GuessLetter
  /\ script' = Append(script, << "guess_letter", << >> >>)
  /\ single_trace' = Append(single_trace,
                            Shown(call', last_guess', solution'[1], solved',
                                  words'))
  /\ UNCHANGED << phase, multi_trace, trieVars, gameVars >>

\* receive_feedback on the RegexHangmanSolver, with any position list
SingleFeedback ==
  /\ phase = "single"
  /\ Len(script) < MaxCalls
  /\ \E matching_indices \in
         IF NoGuessPending THEN { << >> }
                           ELSE PositionLists(Len(solution[1])) :
       /\ Len(ApplyIndices(solution[1], matching_indices, last_guess))
            <= MaxCells
       /\ ReceiveFeedback(matching_indices)
       /\ script' = Append(script, << "receive_feedback", matching_indices >>)
  /\ single_trace' = Append(single_trace,
                            Shown(call', last_guess', solution'[1], solved',
                                  words'))
  /\ UNCHANGED << phase, multi_trace, trieVars, gameVars >>

\* MultiWordRegexHangmanSolver([n]) is constructed for the same length n;
\* the deque of the class is the one the first solver used
StartMulti ==
  /\ phase = "single"
  /\ script # << >>
  /\ phase' = "multi"
  /\ kind' = "MultiWord"
  /\ solution' = << Blank(answer_lengths[1]) >>
  /\ guessed_letters' = {}
  /\ last_guess' = None
  /\ solved' = FALSE
  /\ words' = Dictionary
  /\ word_candidates' = << Dictionary >>
  /\ call' = << "init", "ok" >>
  /\ last_ok' = "none"
  /\ failed' = FALSE
  /\ arg' = None
  /\ UNCHANGED << answer_lengths, letters_by_frequency, alphabet_size, script,
                  single_trace, multi_trace, trieVars, gameVars >>

\* the next call of the script, made on the MultiWordRegexHangmanSolver
\* with the same position list for its one slot
ReplayCall ==
  /\ phase = "multi"
  /\ Len(multi_trace) < Len(script)
  /\ LET c == script[Len(multi_trace) + 1]
     IN  IF c[1] = "guess_letter"
         THEN GuessLetter
         ELSE MultiWordReceiveFeedback(<< c[2] >>)
  /\ multi_trace' = Append(multi_trace,
                           Shown(call', last_guess', solution'[1], solved',
                                 word_candidates'[1]))
  /\ UNCHANGED << phase, script, single_trace, trieVars, gameVars >>

ReplayInit ==
  /\ \E n \in 0..MaxCells : Construct("Regex", << n >>, AlphabetSize)
  /\ phase = "single"
  /\ script = << >>
  /\ single_trace = << >>
  /\ multi_trace = << >>
  /\ TrieNew
  /\ GameIdle

ReplayNext == SingleGuess \/ SingleFeedback \/ StartMulti \/ ReplayCall

SpecReplay == ReplayInit /\ [][ReplayNext]_vars

\* ------------------------------------------------------------------ claims
GuessSucceeds == call' = << "guess_letter", "ok" >>
FeedbackSucceeds == call' = << "receive_feedback", "ok" >>
IsRegexSolver == kind \in { "Regex", "MultiWord" }

\* C1: guess_letter raises whenever the most recent successful call was a
\* guess_letter (a guess is pending), receive_feedback raises whenever it
\* was not, so the successful calls alternate, starting with guess_letter.
C1_Alternation ==
  [][ /\ (call'[1] = "guess_letter" /\ last_ok = "guess_letter")
          => call'[2] = "pending"
      /\ (call'[1] = "receive_feedback" /\ last_ok # "guess_letter")
          => call'[2] = "no_pending"
      /\ FeedbackSucceeds => last_ok = "guess_letter"
      /\ GuessSucceeds => last_ok # "guess_letter" ]_vars

\* C1 witness: a feedback was refused right after a guess/feedback round
C1_Witness ==
  /\ call = << "receive_feedback", "no_pending" >>
  /\ last_ok = "receive_feedback"

\* C2: guessed_letters is exactly the set of letters returned so far, and a
\* successful guess_letter returns a letter that is not in it: the letters
\* returned are pairwise distinct.
C2_NoDuplicateGuesses ==
  [][ IF GuessSucceeds
      THEN /\ last_guess' \notin guessed_letters
           /\ guessed_letters' = guessed_letters \cup { last_guess' }
      ELSE guessed_letters' = guessed_letters ]_vars

\* C2 witness: a multi-slot solver has returned its third letter
C2_Witness ==
  /\ kind = "MultiWord"
  /\ call = << "guess_letter", "ok" >>
  /\ Cardinality(guessed_letters) = 3

\* C3: a cell that holds a letter holds the same letter after every later
\* operation.
C3_MonotonicRevelation ==
  [][ \A i \in 1..Len(solution) : \A j \in 1..Len(solution[i]) :
        solution[i][j] # Unknown
          => /\ i <= Len(solution')
             /\ j <= Len(solution'[i])
             /\ solution'[i][j] = solution[i][j] ]_vars

\* C4: solved is true if and only if no cell of any slot is unknown.
C4_SolvedIffAllRevealed == solved <=> NoUnknown(solution)

\* C5: once solved is true it stays true under every later call.
C5_SolvedStable == [][ solved => solved' ]_vars

\* C5 witness: guess_letter has succeeded on a solver that was already
\* solved
C5_Witness ==
  /\ solved
  /\ call = << "guess_letter", "ok" >>

\* C6: every slot keeps the length given at construction, and the number of
\* slots is unchanged.
C6_SlotLengthsFixed ==
  /\ Len(solution) = Len(answer_lengths)
  /\ \A i \in 1..Len(solution) : Len(solution[i]) = answer_lengths[i]

\* C7: the frequency ordering a solver consults is its own state: it is the
\* fixed order without the letters this solver itself has taken from it, so
\* that what the solver returns and raises depends on its own history alone.
C7_FrequencyOrderPerInstance ==
  LET own == IF kind = "Frequency" THEN Cardinality(guessed_letters) ELSE 0
  IN  /\ letters_by_frequency = SubSeq(FreqOrder, own + 1, AlphabetSize)
      /\ call[2] # "value_error"

\* C8: the k-th successful guess_letter of a Frequency solver returns the
\* k-th letter of the fixed order, and guess_letter fails with Exhausted
\* exactly when every letter of the order has been returned.
C8_FrequencyFixedOrder ==
  [][ (kind = "Frequency" /\ call'[1] = "guess_letter" /\ last_guess = None)
        => /\ call'[2] \in { "ok", "exhausted" }
           /\ call'[2] = "exhausted"
                <=> Cardinality(guessed_letters) = AlphabetSize
           /\ call'[2] = "ok"
                => last_guess' = FreqOrder[Cardinality(guessed_letters) + 1] ]_vars

\* the candidate set of slot i
Candidates(i) == IF kind = "Regex" THEN words ELSE word_candidates[i]

C10_PruningMonotonic ==
  [][ (IsRegexSolver /\ GuessSucceeds /\ guessed_letters # {}) =>
        \A i \in 1..Len(solution) :
          Cardinality(IF kind = "Regex" THEN words' ELSE word_candidates'[i])
            <= Cardinality(Candidates(i)) ]_vars

\* C11: once guess_letter has failed with Exhausted or NoCandidates, no
\* later guess_letter and no later receive_feedback on that solver
\* succeeds, and no cell changes any more.
C11_FailuresTerminal ==
  [][ failed =>
        /\ call'[1] \in { "guess_letter", "receive_feedback" } =>
             call'[2] # "ok"
        /\ solution' = solution ]_vars

\* a call made on a solver after such a failure
C11_Witness ==
  /\ failed
  /\ call = << "receive_feedback", "no_pending" >>

\* the position of a letter in the fixed frequency order
FreqIndex(letter) ==
  CHOOSE i \in 1..Len(FreqOrder) : FreqOrder[i] = letter

\* C14: a successful guess_letter of a regex solver returns a letter that
\* was not guessed before, occurs in a surviving candidate of some slot and
\* comes first in the frequency order among such letters; guess_letter
\* fails with Exhausted exactly when no such letter exists although every
\* slot has a candidate.
C14_GuessChoice ==
  [][ (IsRegexSolver /\ call'[1] = "guess_letter" /\ call'[2] # "pending") =>
        LET surviving(i) == IF kind = "Regex" THEN words'
                                              ELSE word_candidates'[i]
            letters == UNION { LettersOf(surviving(i)) :
                               i \in 1..Len(solution) } \ guessed_letters
        IN  /\ call'[2] = "ok" =>
                 /\ last_guess' \in letters
                 /\ \A l \in letters : FreqIndex(last_guess') <= FreqIndex(l)
            /\ call'[2] = "exhausted" <=>
                 /\ letters = {}
                 /\ \A i \in 1..Len(solution) : surviving(i) # {} ]_vars

\* C15: receive_feedback with no position for any slot, accepted by a
\* solver that is not solved, clears the pending guess and changes
\* neither the cells, the solved flag, the guessed letters nor the
\* candidate sets.
C15_EmptyFeedbackFrame ==
  [][ ( /\ FeedbackSucceeds
        /\ ~solved
        /\ Len(arg') = Len(solution)
        /\ \A i \in 1..Len(arg') : arg'[i] = << >> ) =>
        /\ last_guess' = None
        /\ solution' = solution
        /\ solved' = FALSE
        /\ guessed_letters' = guessed_letters
        /\ words' = words
        /\ word_candidates' = word_candidates ]_vars

\* C20: a guess_letter that fails because a guess is pending, with
\* NoCandidates or with Exhausted adds nothing to guessed_letters and
\* leaves the pending guess as it was; a receive_feedback that fails for
\* lack of a pending guess changes no cell and not the solved flag.
C20_FailedCallsFrame ==
  [][ /\ ( /\ call'[1] = "guess_letter"
           /\ call'[2] \in { "pending", "no_words", "exhausted" } ) =>
           /\ guessed_letters' = guessed_letters
           /\ last_guess' = last_guess
      /\ call' = << "receive_feedback", "no_pending" >> =>
           /\ solution' = solution
           /\ solved' = solved ]_vars

\* a guess_letter that failed on a solver that had guessed before
C20_Witness ==
  /\ call[1] = "guess_letter"
  /\ call[2] \in { "no_words", "exhausted" }
  /\ guessed_letters # {}

\* word begins with prefix
IsPrefix(prefix, word) ==
  Len(prefix) <= Len(word) /\ SubSeq(word, 1, Len(prefix)) = prefix

\* C12: contains(w) is true exactly when the upper-cased w is the
\* upper-cased form of an inserted non-empty word: a proper prefix of an
\* inserted word is contained only if it was inserted itself, and the
\* empty string is never contained.
C12_Contains ==
  trie_out[1] = "contains" =>
    /\ trie_out[3] <=> \E w \in inserted :
                         w # << >> /\ upper(w) = upper(trie_out[2])
    /\ trie_out[2] = << >> => ~trie_out[3]

\* a proper prefix of an inserted word, written in another letter case,
\* that was not inserted and is not contained
C12_Witness ==
  /\ trie_out[1] = "contains"
  /\ ~trie_out[3]
  /\ trie_out[2] # << >>
  /\ \E w \in inserted :
       /\ IsPrefix(upper(trie_out[2]), upper(w))
       /\ ~IsPrefix(trie_out[2], w)

\* the elements of a sequence
Range(seq) == { seq[i] : i \in 1..Len(seq) }

\* C13 as claimed: suggest(prefix) returns every inserted word (in upper
\* case) that begins with the upper-cased prefix, each once, and nothing
\* else.
C13_SuggestInserted ==
  trie_out[1] = "suggest" =>
    LET expected == { upper(w) : w \in { x \in inserted :
                        IsPrefix(upper(trie_out[2]), upper(x)) } }
    IN  /\ Range(trie_out[3]) = expected
        /\ Len(trie_out[3]) = Cardinality(expected)

\* C13, amended: suggest(prefix) returns the upper-cased form of every
\* inserted non-empty word that begins with the upper-cased prefix, each
\* once, and nothing else; the empty word is never returned.
C13_SuggestNonEmpty ==
  trie_out[1] = "suggest" =>
    LET expected == { upper(w) : w \in { x \in inserted :
                        x # << >> /\ IsPrefix(upper(trie_out[2]), upper(x)) } }
    IN  /\ Range(trie_out[3]) = expected
        /\ Len(trie_out[3]) = Cardinality(expected)

\* suggest returned two words or more, one of them inserted in two letter
\* cases
C13_Witness ==
  /\ trie_out[1] = "suggest"
  /\ Len(trie_out[3]) >= 2
  /\ \E v, w \in inserted : v # w /\ upper(v) = upper(w)
                              /\ upper(v) \in Range(trie_out[3])

\* C16: under honest feedback, when every answer word is in the
\* dictionary, after every guess_letter each answer word is in the
\* candidate set of its slot, and guess_letter never fails with
\* NoCandidates.
C16_AnswerSurvives ==
  call[1] = "guess_letter" =>
    /\ call[2] # "no_words"
    /\ \A i \in 1..Len(answer) : answer[i] \in Candidates(i)

\* a successful guess_letter in the third round on a two-word answer
C16_Witness ==
  /\ call = << "guess_letter", "ok" >>
  /\ Len(answer) = 2
  /\ rounds >= 2

\* C17: under honest feedback without a limit on wrong guesses, when every
\* answer word is in the dictionary, a regex solver never fails with
\* Exhausted while a cell is unknown, the run never ends unsolved, and it
\* takes at most as many rounds as there are letters.
C17_ReachesSolved ==
  /\ call = << "guess_letter", "exhausted" >> => NoUnknown(solution)
  /\ pc \in { "done", "error" } => solved
  /\ rounds <= Cardinality(ALL_LETTERS)

\* C18: in play the wrong guesses are exactly the guessed letters that do
\* not occur in the answer, there are never more than max_wrong_guesses of
\* them, an iteration starts only while the solver is not solved and fewer
\* than max_wrong_guesses wrong guesses were made, the loop ends only when
\* the solver is solved or max_wrong_guesses wrong guesses were made, and
\* there are at most as many rounds as letters.
C18_WrongGuesses ==
  /\ [](/\ wrong_guesses =
             { l \in guessed_letters :
                 \A i \in 1..Len(answer) : l \notin Range(answer[i]) }
        /\ Cardinality(wrong_guesses) <= max_wrong_guesses
        /\ pc = "done" =>
             solved \/ Cardinality(wrong_guesses) = max_wrong_guesses
        /\ rounds <= Cardinality(ALL_LETTERS))
  /\ [][ (pc = "loop" /\ pc' \in { "feedback", "error" }) =>
           ~solved /\ Cardinality(wrong_guesses) < max_wrong_guesses ]_vars

\* play ended because max_wrong_guesses wrong guesses were made
C18_Witness ==
  /\ pc = "done"
  /\ ~solved
  /\ Cardinality(wrong_guesses) = max_wrong_guesses

\* C19: given the same calls with the same position lists, the multi-word
\* solver with one slot fails at the same calls as the single-slot regex
\* solver and after every successful guess_letter shows the same letter,
\* partial solution, solved flag and candidate set.
C19_OneSlotEquivalent ==
  \A i \in 1..Len(multi_trace) : multi_trace[i] = single_trace[i]

====
